---- MODULE Spec2Model ----
(***************************************************************************)
(* Optimz (src/Optimz/src/main.cpp): a command-line driver that shrinks an *)
(* ELF binary in place by running external tools (strip, objcopy,          *)
(* patchelf, sstrip, upx) over it for one or more passes, after saving a   *)
(* one-time backup <target>.bak.                                           *)
(*                                                                         *)
(* The model is the file system (the target and its .bak sibling), the     *)
(* inputs of a process launch (argv, PATH) and the position of main().     *)
(* Several launches follow each other on the same file system.             *)
(***************************************************************************)
EXTENDS Integers, Sequences, FiniteSets, TLC

\* ------------------------------------------------------------------ bounds
\* number of successive launches of the program on the same target
MaxRuns == 2
\* longest body (bytes after the 4-byte signature) a target file may have
MaxBody == 2

\* INT_MAX of the int that std::stoi returns
IntMax == 2147483647

\* ------------------------------------------------------------- file system
\* a path that names nothing
NoFile == [kind |-> "none", x |-> FALSE, bytes |-> << >>]

\* the 4-byte signature 0x7F 'E' 'L' 'F'
ElfMagic == <<127, 69, 76, 70>>

\* A file is NoFile or a record: kind (regular file or directory), x (the
\* caller may execute it), bytes (its content; empty for a directory).
RegFile(x, bytes) == [kind |-> "reg", x |-> x, bytes |-> bytes]
DirFile == [kind |-> "dir", x |-> TRUE, bytes |-> << >>]

\* targets a launch may be pointed at
TargetChoices ==
    {NoFile, DirFile,
     RegFile(FALSE, ElfMagic \o <<0>>),        \* ELF without execute permission
     RegFile(TRUE, <<127, 69, 76, 0, 0>>),     \* executable, wrong signature
     RegFile(TRUE, <<127, 69>>)}               \* executable, shorter than 4 bytes
    \cup {RegFile(TRUE, ElfMagic \o [k \in 1..MaxBody |-> 0])}   \* a valid target

\* a <target>.bak that is already there before the first launch
OldBackup == RegFile(FALSE, ElfMagic \o <<1, 1, 1>>)
BakChoices == {NoFile, OldBackup}

\* fs::exists
exists(f) == f # NoFile

\* ------------------------------------------------------------ Format Prober
isExecutableFile(f) ==
    IF f = NoFile THEN FALSE              \* stat fails
    ELSE IF f.kind # "reg" THEN FALSE     \* !S_ISREG
    ELSE IF ~f.x THEN FALSE               \* access(X_OK) fails
    ELSE TRUE

\* [ok, out]: out is the prefix read, ok iff `bytes` bytes could be read
readFilePrefix(f, bytes) ==
    IF f = NoFile \/ f.kind # "reg"
    THEN [ok |-> FALSE, out |-> << >>]
    ELSE LET n == IF Len(f.bytes) < bytes THEN Len(f.bytes) ELSE bytes
         IN [ok |-> n = bytes, out |-> SubSeq(f.bytes, 1, n)]

\* mutation: only the first three bytes of the signature are compared
isElfBinary_threeBytes(f) ==
    LET r == readFilePrefix(f, 4)
    IN IF ~r.ok THEN FALSE
       ELSE Len(r.out) >= 4 /\ r.out[1] = 127 /\ r.out[2] = 69 /\ r.out[3] = 76

isElfBinary(f) ==
    LET r == readFilePrefix(f, 4)
    IN IF ~r.ok THEN FALSE
       ELSE Len(r.out) >= 4 /\ r.out[1] = 127 /\ r.out[2] = 69
            /\ r.out[3] = 76 /\ r.out[4] = 70

\* mutation: a size that cannot be read is reported as the largest size
fileSize_errIsMax(f) ==
    IF f = NoFile \/ f.kind # "reg" THEN IntMax ELSE Len(f.bytes)

\* fs::file_size with an error_code: 0 when the size cannot be read
fileSize(f) ==
    IF f = NoFile \/ f.kind # "reg" THEN 0 ELSE Len(f.bytes)

\* ------------------------------------------------------------- Tool Locator
\* std::nullopt
None == << >>
\* The PATH variable: set says whether getenv("PATH") is non-null, dirs are
\* the directories it lists, in order.
PathOf(dirs) == [set |-> TRUE, dirs |-> dirs]
NoPath == [set |-> FALSE, dirs |-> << >>]

\* A search-path directory: its name, the executable regular files in it
\* (execs) and the entries that are there but are not executable regular
\* files (other).
Dir(name, execs, other) == [name |-> name, execs |-> execs, other |-> other]

RECURSIVE whichFrom(_, _, _)
\* the loop of which(): directories k, k+1, ... of the search path
whichFrom(path, exe, k) ==
    IF k > Len(path) THEN None
    ELSE IF exe \in path[k].execs   \* exists && is_regular_file && access(X_OK)
         THEN <<path[k].name, exe>>
         ELSE whichFrom(path, exe, k + 1)

which(pathEnv, exe) ==
    IF ~pathEnv.set THEN None ELSE whichFrom(pathEnv.dirs, exe, 1)

\* mutation: the GNU names are looked up first
detectTools_gnuFirst(pathEnv) ==
    LET gnuStrip == which(pathEnv, "strip")
        gnuObjcopy == which(pathEnv, "objcopy")
    IN [strip    |-> IF gnuStrip # None THEN gnuStrip ELSE which(pathEnv, "llvm-strip"),
        objcopy  |-> IF gnuObjcopy # None THEN gnuObjcopy ELSE which(pathEnv, "llvm-objcopy"),
        upx      |-> which(pathEnv, "upx"),
        patchelf |-> which(pathEnv, "patchelf"),
        sstrip   |-> which(pathEnv, "sstrip")]

detectTools(pathEnv) ==
    LET llvmStrip == which(pathEnv, "llvm-strip")
        llvmObjcopy == which(pathEnv, "llvm-objcopy")
    IN [strip    |-> IF llvmStrip # None THEN llvmStrip ELSE which(pathEnv, "strip"),
        objcopy  |-> IF llvmObjcopy # None THEN llvmObjcopy ELSE which(pathEnv, "objcopy"),
        upx      |-> which(pathEnv, "upx"),
        patchelf |-> which(pathEnv, "patchelf"),
        sstrip   |-> which(pathEnv, "sstrip")]

\* Tools{} before detectTools has run
NoTools == [strip |-> None, objcopy |-> None, upx |-> None, patchelf |-> None, sstrip |-> None]

\* mutation: the negations of the test are missing
noToolsFound_notNegated(t) == t.strip # None /\ t.objcopy # None /\ t.upx # None

\* the test of main() that ends the run for lack of tools
noToolsFound(t) == t.strip = None /\ t.objcopy = None /\ t.upx = None

\* -------------------------------------------------------- argument parsing
\* A string is a sequence of one-character strings.
Digits == <<"0", "1", "2", "3", "4", "5", "6", "7", "8", "9">>
IsDigit(c) == \E d \in 1..10 : Digits[d] = c
DigitVal(c) == (CHOOSE d \in 1..10 : Digits[d] = c) - 1

\* std::string::substr(pos)
substr(s, pos) == SubSeq(s, pos + 1, Len(s))

RECURSIVE skipSpace(_)
skipSpace(s) == IF s # << >> /\ Head(s) = " " THEN skipSpace(Tail(s)) ELSE s

RECURSIVE digitPrefix(_)
\* the longest prefix of s made of decimal digits
digitPrefix(s) ==
    IF s # << >> /\ IsDigit(Head(s)) THEN <<Head(s)>> \o digitPrefix(Tail(s)) ELSE << >>

RECURSIVE digitsValue(_, _)
digitsValue(s, acc) ==
    IF s = << >> THEN acc ELSE digitsValue(Tail(s), 10 * acc + DigitVal(Head(s)))

\* std::stoi(s): leading blanks, an optional sign, then the longest run of
\* digits; what follows the digits is ignored. thrown is "invalid_argument"
\* when there is no digit, "out_of_range" when the value does not fit an int.
stoi(s) ==
    LET t == skipSpace(s)
        neg == t # << >> /\ Head(t) = "-"
        u == IF t # << >> /\ Head(t) \in {"-", "+"} THEN Tail(t) ELSE t
        ds == digitPrefix(u)
        v == IF neg THEN 0 - digitsValue(ds, 0) ELSE digitsValue(ds, 0)
    IN IF ds = << >> THEN [thrown |-> "invalid_argument", val |-> 0]
       ELSE IF v > IntMax \/ v < 0 - IntMax - 1 THEN [thrown |-> "out_of_range", val |-> 0]
       ELSE [thrown |-> "none", val |-> v]

\* ------------------------------------------------------- Subprocess Runner
\* what std::system returns: -1 (no child could be created, errno set), or a
\* wait status whose bits 8..15 hold the child's exit status
\* runCommand's `if (!quiet) std::cerr << "[exec] " << cmd`: the lines it
\* writes for the command cmd
echo(cmd, quiet) == IF quiet THEN << >> ELSE << <<"[exec]", cmd>> >>

runCommand(rc, errno) ==
    IF rc = -1 THEN (IF errno # 0 THEN errno ELSE 1)
    ELSE (rc \div 256) % 256     \* WEXITSTATUS

\* ---------------------------------------------------------- Shrink Pipeline
Cmd(exe, cap, flags) == [exe |-> exe, cap |-> cap, flags |-> flags]

\* mutation: the upx step is placed first
Commands_upxFirst(tools) ==
    (IF tools.upx # None
     THEN <<Cmd(tools.upx, "upx", "--best --lzma")>>
     ELSE << >>)
    \o (IF tools.strip # None
        THEN <<Cmd(tools.strip, "strip", "--strip-unneeded"),
               Cmd(tools.strip, "strip", "--strip-all")>>
        ELSE << >>)
    \o (IF tools.objcopy # None
        THEN <<Cmd(tools.objcopy, "objcopy", "--strip-debug"),
               Cmd(tools.objcopy, "objcopy", "--remove-section"),
               Cmd(tools.objcopy, "objcopy", "--compress-debug-sections")>>
        ELSE << >>)
    \o (IF tools.patchelf # None
        THEN <<Cmd(tools.patchelf, "patchelf", "--shrink-rpath")>>
        ELSE << >>)
    \o (IF tools.sstrip # None
        THEN <<Cmd(tools.sstrip, "sstrip", "")>>
        ELSE << >>)

\* the commands one call of optimizeOnce hands to tryStep, in order
Commands(tools) ==
    (IF tools.strip # None
     THEN <<Cmd(tools.strip, "strip", "--strip-unneeded"),
            Cmd(tools.strip, "strip", "--strip-all")>>
     ELSE << >>)
    \o (IF tools.objcopy # None
        THEN <<Cmd(tools.objcopy, "objcopy", "--strip-debug"),
               Cmd(tools.objcopy, "objcopy", "--remove-section"),
               Cmd(tools.objcopy, "objcopy", "--compress-debug-sections")>>
        ELSE << >>)
    \o (IF tools.patchelf # None
        THEN <<Cmd(tools.patchelf, "patchelf", "--shrink-rpath")>>
        ELSE << >>)
    \o (IF tools.sstrip # None
        THEN <<Cmd(tools.sstrip, "sstrip", "")>>
        ELSE << >>)
    \o (IF tools.upx # None
        THEN <<Cmd(tools.upx, "upx", "--best --lzma")>>
        ELSE << >>)

\* mutation: a step with a nonzero status ends the pass
afterStep_abortOnFailure(rc, step, n) == IF rc # 0 THEN n + 1 ELSE step + 1

\* tryStep returns to optimizeOnce, which goes on with the next of its n
\* commands whatever the status rc was
afterStep(rc, step, n) == step + 1

\* mutation: the exit status is not looked at
stepShrank_ignoresStatus(rc, beforeStep, sizeNow) == sizeNow < beforeStep

\* tryStep's test: the step counts as a reduction
stepShrank(rc, beforeStep, sizeNow) == rc = 0 /\ sizeNow < beforeStep

\* ---------------------------------------------------- external collaborators
\* What an external tool may leave at the target path: the file as it was,
\* one byte shorter, one byte longer, same length with another last byte, or
\* nothing. The tools keep the 4-byte signature and never touch <target>.bak.
ToolOutcomes(f) ==
    IF f.kind # "reg" THEN {f}
    ELSE LET b == f.bytes
             n == Len(b)
         IN {f, NoFile}
            \cup (IF n > 4 THEN {RegFile(f.x, SubSeq(b, 1, n - 1))} ELSE {})
            \cup (IF n < 4 + MaxBody THEN {RegFile(f.x, b \o <<0>>)} ELSE {})
            \cup (IF n > 4 THEN {RegFile(f.x, SubSeq(b, 1, n - 1) \o <<1>>)} ELSE {})

\* what std::system may return and the errno it leaves: -1 (with or without
\* an errno), a child that exited with 0, a child that exited with 1
SystemResults ==
    {[rc |-> -1, errno |-> 0], [rc |-> -1, errno |-> 12],
     [rc |-> 0, errno |-> 0], [rc |-> 256, errno |-> 0]}

\* What fs::copy_file(from, to, ec) may do when `to` does not exist: copy the
\* file, or fail and leave nothing, or fail after `to` was created and only a
\* part of the content was written (the library does not remove it).
CopyOutcomes(from) ==
    {[ec |-> FALSE, to |-> from],
     [ec |-> TRUE, to |-> NoFile],
     [ec |-> TRUE, to |-> RegFile(from.x, SubSeq(from.bytes, 1, Len(from.bytes) - 1))]}

\* ------------------------------------------------------------------- inputs
AllNames == {"llvm-strip", "strip", "llvm-objcopy", "objcopy", "upx", "patchelf", "sstrip"}

PathChoices ==
    {NoPath, PathOf(<<Dir("/bin", {}, {"strip", "upx"})>>)}
    \cup {PathOf(<<Dir("/bin", {n}, {})>>) : n \in {"strip", "objcopy", "upx", "patchelf", "sstrip"}}
    \cup {PathOf(<<Dir("/bin", {"strip"}, {"upx"}), Dir("/llvm", {"llvm-strip", "upx"}, {})>>),
          PathOf(<<Dir("/bin", AllNames, {})>>)}

TargetPath == <<"a">>
Str2 == <<"-", "2">>
Str3 == <<"-", "3">>
Str0 == <<"-", "0">>
StrNeg3 == <<"-", "-", "3">>
StrBad == <<"2">>

\* argv[1..] of a launch
ArgvChoices ==
    {<< >>, <<TargetPath>>}
    \cup {<<TargetPath, a2>> : a2 \in {Str2, Str3, Str0, StrNeg3, StrBad}}

\* -------------------------------------------------------------------- state
VARIABLES
    target,      \* the file at the target path
    bak,         \* the file at <target>.bak
    target0,     \* history: the target before the first launch
    bak0,        \* history: <target>.bak before the first launch
    run,         \* number of launches so far
    argv,        \* argv[1..] of the current launch
    pathEnv,     \* PATH of the current launch
    pc,          \* position of main(): idle, args, target, tools, backup,
                 \*   loop, steps, done, exit
    passes,      \* main: passes
    i,           \* main: the for loop's index
    tools,       \* main: tools
    sizeNow,     \* optimizeOnce: sizeNow
    anyShrank,   \* optimizeOnce: anyShrank
    step,        \* optimizeOnce: index in Commands(tools) of the next tryStep
    exitCode,    \* the process's exit code, -1 while it runs
    msg,         \* the diagnostic that announced how the run ended
    diag,        \* what the pass loop of this launch has written to std::cerr
    backupCalls, \* history: calls of backupOnce in this launch
    backupOk,    \* history: the last call of backupOnce returned true
    cmds,        \* history: <<pass, command>> of every tool invocation of this launch
    lastOut,     \* history: the target as the last tool invocation left it
    reduced,     \* history: the passes of this launch in which some tool exited
                 \*   with status 0 and left the target file smaller than it found it
    sawFailure,  \* history: some tool invocation of this launch had a nonzero status
    targetAtStart, \* history: the target when this launch began
    bakAtStart     \* history: <target>.bak when this launch began

vars == <<target, bak, target0, bak0, run, argv, pathEnv, pc, passes, i, tools,
          sizeNow, anyShrank, step, exitCode, msg, diag, backupCalls, backupOk, cmds,
          lastOut, reduced, sawFailure, targetAtStart, bakAtStart>>

fsVars == <<target, bak, target0, bak0>>
inputVars == <<run, argv, pathEnv, targetAtStart, bakAtStart>>
passVars == <<sizeNow, anyShrank, step>>
histVars == <<backupCalls, backupOk, cmds, lastOut, reduced, sawFailure>>

Init ==
    /\ target \in TargetChoices
    /\ bak \in BakChoices
    /\ target0 = target
    /\ bak0 = bak
    /\ run = 0
    /\ argv = << >>
    /\ pathEnv = NoPath
    /\ pc = "idle"
    /\ passes = 1
    /\ i = 1
    /\ tools = NoTools
    /\ sizeNow = 0
    /\ anyShrank = FALSE
    /\ step = 1
    /\ exitCode = -1
    /\ msg = ""
    /\ diag = << >>
    /\ backupCalls = 0
    /\ backupOk = FALSE
    /\ cmds = << >>
    /\ lastOut = target
    /\ reduced = {}
    /\ sawFailure = FALSE
    /\ targetAtStart = target
    /\ bakAtStart = bak

\* `return code` from main
Return(code, text) ==
    /\ pc' = "exit"
    /\ exitCode' = code
    /\ msg' = text

\* The program is started on the target, with some arguments and some PATH.
Launch ==
    /\ pc \in {"idle", "exit"}
    /\ run < MaxRuns
    /\ run' = run + 1
    /\ argv' \in ArgvChoices
    /\ pathEnv' \in PathChoices
    /\ pc' = "args"
    /\ passes' = 1
    /\ i' = 1
    /\ tools' = NoTools
    /\ sizeNow' = 0
    /\ anyShrank' = FALSE
    /\ step' = 1
    /\ exitCode' = -1
    /\ msg' = ""
    /\ diag' = << >>
    /\ backupCalls' = 0
    /\ backupOk' = FALSE
    /\ cmds' = << >>
    /\ lastOut' = target
    /\ reduced' = {}
    /\ sawFailure' = FALSE
    /\ targetAtStart' = target
    /\ bakAtStart' = bak
    /\ UNCHANGED fsVars

\* mutation: `if (passes < 1) passes = 1;` is missing
parsePasses_noClamp(args) ==
    IF Len(args) + 1 < 2 THEN [err |-> "usage", passes |-> 1]
    ELSE IF Len(args) + 1 >= 3
    THEN LET a2 == args[2]
         IN IF a2 # << >> /\ a2[1] = "-"
            THEN LET r == stoi(substr(a2, 1))
                 IN IF r.thrown # "none"
                    THEN [err |-> "Invalid optimization count", passes |-> 1]
                    ELSE [err |-> "", passes |-> r.val]
            ELSE [err |-> "Second argument must be -<times>", passes |-> 1]
    ELSE [err |-> "", passes |-> 1]

\* the pass count main() takes from argv: [err, passes]
parsePasses(args) ==
    IF Len(args) + 1 < 2 THEN [err |-> "usage", passes |-> 1]
    ELSE IF Len(args) + 1 >= 3
    THEN LET a2 == args[2]
         IN IF a2 # << >> /\ a2[1] = "-"
            THEN LET r == stoi(substr(a2, 1))
                 IN IF r.thrown # "none"
                    THEN [err |-> "Invalid optimization count", passes |-> 1]
                    ELSE [err |-> "", passes |-> IF r.val < 1 THEN 1 ELSE r.val]
            ELSE [err |-> "Second argument must be -<times>", passes |-> 1]
    ELSE [err |-> "", passes |-> 1]

\* main, argument handling
ParseArgs ==
    /\ pc = "args"
    /\ LET r == parsePasses(argv)
       IN IF r.err # ""
          THEN Return(1, r.err) /\ UNCHANGED passes
          ELSE /\ passes' = r.passes
               /\ pc' = "target"
               /\ UNCHANGED <<exitCode, msg>>
    /\ UNCHANGED <<fsVars, inputVars, i, tools, passVars, histVars, diag>>

\* the diagnostic of the first failing check of the target, "" if none fails
checkTarget(f) ==
    IF ~exists(f) THEN "Target not found"
    ELSE IF ~isExecutableFile(f) THEN "Target is not an executable file"
    ELSE IF ~isElfBinary(f) THEN "Target is not an ELF binary"
    ELSE ""

\* main, the checks of the target
CheckTarget ==
    /\ pc = "target"
    /\ LET e == checkTarget(target)
       IN IF e # ""
          THEN Return(1, e)
          ELSE pc' = "tools" /\ UNCHANGED <<exitCode, msg>>
    /\ UNCHANGED <<fsVars, inputVars, passes, i, tools, passVars, histVars, diag>>

\* main, tool detection and the no-tools exit
DetectTools ==
    /\ pc = "tools"
    /\ tools' = detectTools(pathEnv)
    /\ IF noToolsFound(tools')
       THEN Return(1, "No optimization tools found in PATH")
       ELSE pc' = "backup" /\ UNCHANGED <<exitCode, msg>>
    /\ UNCHANGED <<fsVars, inputVars, passes, i, passVars, histVars, diag>>

\* mutation: the error code of the copy is not looked at
backupOnce_ignoreEc(from, to, c) ==
    IF exists(to) THEN [ok |-> TRUE, bak |-> to]
    ELSE [ok |-> TRUE, bak |-> c.to]

\* mutation: the test for an existing backup is inverted
backupOnce_existsInverted(from, to, c) ==
    IF ~exists(to) THEN [ok |-> TRUE, bak |-> to]
    ELSE IF c.ec THEN [ok |-> FALSE, bak |-> c.to]
    ELSE [ok |-> TRUE, bak |-> c.to]

\* backupOnce(target) with the outcome `c` of fs::copy_file: [ok, bak]
backupOnce(from, to, c) ==
    IF exists(to) THEN [ok |-> TRUE, bak |-> to]
    ELSE IF c.ec THEN [ok |-> FALSE, bak |-> c.to]
    ELSE [ok |-> TRUE, bak |-> c.to]

\* mutation: the result of backupOnce is not looked at
BackupOnce_resultIgnored ==
    /\ pc = "backup"
    /\ \E c \in CopyOutcomes(target) :
         LET r == backupOnce(target, bak, c)
         IN /\ bak' = r.bak
            /\ backupOk' = r.ok
            /\ pc' = "loop" /\ UNCHANGED <<exitCode, msg>>
    /\ backupCalls' = backupCalls + 1
    /\ UNCHANGED <<target, target0, bak0, inputVars, passes, i, tools, passVars,
                   cmds, lastOut, reduced, sawFailure, diag>>

\* main, `if (!backupOnce(target)) return 1;`
BackupOnce ==
    /\ pc = "backup"
    /\ \E c \in CopyOutcomes(target) :
         LET r == backupOnce(target, bak, c)
         IN /\ bak' = r.bak
            /\ backupOk' = r.ok
            /\ IF r.ok
               THEN pc' = "loop" /\ UNCHANGED <<exitCode, msg>>
               ELSE Return(1, "Failed to create backup")
    /\ backupCalls' = backupCalls + 1
    /\ UNCHANGED <<target, target0, bak0, inputVars, passes, i, tools, passVars,
                   cmds, lastOut, reduced, sawFailure, diag>>

\* mutation: the loop's test lets one more pass through
PassBegin_offByOne ==
    /\ pc = "loop"
    /\ i <= passes + 1
    /\ pc' = "steps"
    /\ anyShrank' = FALSE
    /\ sizeNow' = fileSize(target)
    /\ step' = 1
    /\ diag' = Append(diag, <<"Pass", i>>)
    /\ UNCHANGED <<fsVars, inputVars, passes, i, tools, exitCode, msg, histVars>>

\* main enters the loop body: optimizeOnce begins
PassBegin ==
    /\ pc = "loop"
    /\ i <= passes
    /\ pc' = "steps"
    /\ anyShrank' = FALSE
    /\ sizeNow' = fileSize(target)
    /\ step' = 1
    /\ diag' = Append(diag, <<"Pass", i>>)
    /\ UNCHANGED <<fsVars, inputVars, passes, i, tools, exitCode, msg, histVars>>

\* optimizeOnce: one call of tryStep, the external tool included
TryStep ==
    /\ pc = "steps"
    /\ step <= Len(Commands(tools))
    /\ \E sys \in SystemResults, out \in ToolOutcomes(target) :
         /\ sys.rc = -1 => out = target        \* no child ran
         /\ LET beforeStep == sizeNow
                rc == runCommand(sys.rc, sys.errno)
            IN /\ target' = out
               /\ sizeNow' = fileSize(out)
               /\ anyShrank' = (anyShrank \/ stepShrank(rc, beforeStep, fileSize(out)))
               /\ lastOut' = out
               /\ reduced' = IF rc = 0 /\ Len(out.bytes) < Len(target.bytes)
                             THEN reduced \cup {i} ELSE reduced
               /\ sawFailure' = (sawFailure \/ rc # 0)
               /\ step' = afterStep(rc, step, Len(Commands(tools)))
    /\ cmds' = Append(cmds, <<i, Commands(tools)[step]>>)
    /\ diag' = diag \o echo(Commands(tools)[step], TRUE)   \* runCommand(cmd, true)
    /\ UNCHANGED <<bak, target0, bak0, inputVars, pc, passes, i, tools, exitCode, msg,
                   backupCalls, backupOk>>

\* mutation: the loop does not break when the pass reduced nothing
PassEnd_noBreak ==
    /\ pc = "steps"
    /\ step > Len(Commands(tools))
    /\ pc' = "loop" /\ i' = i + 1 /\ UNCHANGED msg
    /\ diag' = Append(diag, <<"Size">>)
    /\ UNCHANGED <<fsVars, inputVars, passes, tools, passVars, exitCode, histVars>>

\* optimizeOnce returns anyShrank; main breaks or goes on with the next pass
PassEnd ==
    /\ pc = "steps"
    /\ step > Len(Commands(tools))
    /\ IF ~anyShrank
       THEN /\ pc' = "done" /\ msg' = "No further changes; stopping early." /\ UNCHANGED i
            /\ diag' = diag \o << <<"Size">>, <<"No further changes; stopping early.">> >>
       ELSE /\ pc' = "loop" /\ i' = i + 1 /\ UNCHANGED msg
            /\ diag' = Append(diag, <<"Size">>)
    /\ UNCHANGED <<fsVars, inputVars, passes, tools, passVars, exitCode, histVars>>

\* main after the loop: "Done.", return 0
Done ==
    /\ \/ pc = "done"
       \/ pc = "loop" /\ i > passes
    /\ pc' = "exit"
    /\ exitCode' = 0
    /\ diag' = Append(diag, <<"Done.">>)
    /\ UNCHANGED <<fsVars, inputVars, passes, i, tools, passVars, msg, histVars>>

Next ==
    \/ Launch
    \/ ParseArgs
    \/ CheckTarget
    \/ DetectTools
    \/ BackupOnce
    \/ PassBegin
    \/ TryStep
    \/ PassEnd
    \/ Done

Spec == Init /\ [][Next]_vars

\* a step of the running process: main() is sequential and every external
\* command returns, so the process goes on until it exits
Run ==
    \/ ParseArgs
    \/ CheckTarget
    \/ DetectTools
    \/ BackupOnce
    \/ PassBegin
    \/ TryStep
    \/ PassEnd
    \/ Done

\* the first launch on a target
LaunchOnce == run = 0 /\ Launch

NextOne ==
    \/ LaunchOnce
    \/ Run

\* one launch, which is not held up: Launch sets all of main's variables
\* anew, so a later launch runs as a first one does on the files it finds
FairSpec == Init /\ [][NextOne]_vars /\ WF_vars(Run)

\* ------------------------------------------- the argument handling on its own
\* longest second argument drawn from ArgChars
MaxArgLen == 3
ArgChars == {"-", "0", "2", "a"}
\* second arguments: every string over ArgChars up to MaxArgLen, and some
\* longer ones
ArgStrings ==
    UNION {[1..n -> ArgChars] : n \in 0..MaxArgLen}
    \cup {<<"-", "2", "a", "b", "c">>, <<"-", "a", "b", "c">>, <<"-", " ", "2">>,
          <<"-", "+", "2">>, <<"2", "-">>}

\* a process that has just been started with some arguments
InitArgs ==
    /\ target \in TargetChoices
    /\ bak \in BakChoices
    /\ target0 = target
    /\ bak0 = bak
    /\ run = 1
    /\ argv \in {<< >>, <<TargetPath>>} \cup {<<TargetPath, a2>> : a2 \in ArgStrings}
    /\ pathEnv = PathOf(<<Dir("/bin", AllNames, {})>>)
    /\ pc = "args"
    /\ passes = 1
    /\ i = 1
    /\ tools = NoTools
    /\ sizeNow = 0
    /\ anyShrank = FALSE
    /\ step = 1
    /\ exitCode = -1
    /\ msg = ""
    /\ diag = << >>
    /\ backupCalls = 0
    /\ backupOk = FALSE
    /\ cmds = << >>
    /\ lastOut = target
    /\ reduced = {}
    /\ sawFailure = FALSE
    /\ targetAtStart = target
    /\ bakAtStart = bak

NextArgs == ParseArgs

SpecArgs == InitArgs /\ [][NextArgs]_vars

\* ------------------------------------------------ tool detection on its own
\* the longest PATH looked at, in directories
MaxDirs == 2

\* the names detectTools asks which() for, for strip, objcopy and upx
WhichNames == {"llvm-strip", "strip", "llvm-objcopy", "objcopy", "upx"}

\* the name of the k-th directory of a PATH
DirName(k) == <<"/d", k>>
\* What a directory holds, as <<execs, other>>: any of the names as
\* executable regular files; or all of them, none being one; or strip as
\* one and llvm-strip as an entry that is not one.
DirContents ==
    {<<execs, {}>> : execs \in SUBSET WhichNames}
    \cup {<<{}, WhichNames>>, <<{"strip"}, {"llvm-strip"}>>}
\* the PATH of n directories that hold f[1], ..., f[n]
PathWith(n, f) == PathOf([k \in 1..n |-> Dir(DirName(k), f[k][1], f[k][2])])

\* a process that has accepted its arguments and its target and is about to
\* look for the tools
InitWhich ==
    /\ target = RegFile(TRUE, ElfMagic \o [k \in 1..MaxBody |-> 0])
    /\ bak \in BakChoices
    /\ target0 = target
    /\ bak0 = bak
    /\ run = 1
    /\ argv = <<TargetPath>>
    \* PATH unset, empty, or of 1..MaxDirs directories
    /\ \/ pathEnv = NoPath
       \/ \E n \in 0..MaxDirs : \E f \in [1..n -> DirContents] : pathEnv = PathWith(n, f)
    /\ pc = "tools"
    /\ passes = 1
    /\ i = 1
    /\ tools = NoTools
    /\ sizeNow = 0
    /\ anyShrank = FALSE
    /\ step = 1
    /\ exitCode = -1
    /\ msg = ""
    /\ diag = << >>
    /\ backupCalls = 0
    /\ backupOk = FALSE
    /\ cmds = << >>
    /\ lastOut = target
    /\ reduced = {}
    /\ sawFailure = FALSE
    /\ targetAtStart = target
    /\ bakAtStart = bak

NextWhich == DetectTools

SpecWhich == InitWhich /\ [][NextWhich]_vars

\* --------------------------------------------------------------- properties
\* a capability's program can be run from some directory of PATH
Available(name) ==
    pathEnv.set /\ \E k \in 1..Len(pathEnv.dirs) : name \in pathEnv.dirs[k].execs
HasStrip == Available("llvm-strip") \/ Available("strip")
HasObjcopy == Available("llvm-objcopy") \/ Available("objcopy")
HasUpx == Available("upx")
HasPatchelf == Available("patchelf")
HasSstrip == Available("sstrip")
CapsPresent ==
    {c \in {"strip", "objcopy", "patchelf", "sstrip", "upx"} :
        \/ c = "strip" /\ HasStrip
        \/ c = "objcopy" /\ HasObjcopy
        \/ c = "patchelf" /\ HasPatchelf
        \/ c = "sstrip" /\ HasSstrip
        \/ c = "upx" /\ HasUpx}

\* the target is missing, not a regular file, not executable, or does not
\* begin with 0x7F 'E' 'L' 'F'
BadTarget(f) ==
    \/ f = NoFile
    \/ f.kind # "reg"
    \/ ~f.x
    \/ Len(f.bytes) < 4
    \/ SubSeq(f.bytes, 1, 4) # <<127, 69, 76, 70>>

\* the commands of this launch's pass p, in the order they were issued
PassCmds(p) ==
    LET sel == SelectSeq(cmds, LAMBDA e : e[1] = p)
    IN [k \in 1..Len(sel) |-> sel[k][2]]
\* passes begun by this launch
PassesBegun == IF pc \in {"steps", "done"} THEN i
               ELSE IF i > passes THEN passes
               ELSE IF cmds = << >> THEN 0 ELSE cmds[Len(cmds)][1]

\* the log of one pass that issues the commands of the tools t
Commands2Log(t) == [k \in 1..Len(Commands(t)) |-> <<1, Commands(t)[k]>>]

\* the fixed order of the shrink steps
FixedOrder ==
    <<<<"strip", "--strip-unneeded">>, <<"strip", "--strip-all">>,
      <<"objcopy", "--strip-debug">>, <<"objcopy", "--remove-section">>,
      <<"objcopy", "--compress-debug-sections">>, <<"patchelf", "--shrink-rpath">>,
      <<"sstrip", "">>, <<"upx", "--best --lzma">>>>
\* position of a command in the fixed order, 0 if it is not one of them
OrderIndex(c) ==
    IF \E k \in 1..Len(FixedOrder) : FixedOrder[k] = <<c.cap, c.flags>>
    THEN CHOOSE k \in 1..Len(FixedOrder) : FixedOrder[k] = <<c.cap, c.flags>>
    ELSE 0

\* C1: no tool is run on the target, and no pass is begun, before backupOnce
\* was called and returned true, and then <target>.bak exists; backupOnce is
\* called at most once in a launch, and exactly once in a launch that reaches
\* the first pass.
C1_BackupPrecedesMutation ==
    /\ backupCalls <= 1
    /\ (pc \in {"loop", "steps", "done"} \/ cmds # << >> \/ target # targetAtStart)
          => (backupCalls = 1 /\ backupOk /\ exists(bak))
    /\ exitCode = 0 => backupCalls = 1

\* a tool is being run in the second pass of a launch whose backup was made
C1_Witness ==
    pc = "steps" /\ i = 2 /\ Len(cmds) >= 3 /\ backupCalls = 1 /\ bakAtStart = NoFile

\* C2 (first half): a <target>.bak that exists is never changed or removed,
\* by backupOnce or by any other step.
C2_ExistingBackupKept == [][exists(bak) => bak' = bak]_vars

\* C2: when the launches start with no <target>.bak, the .bak found after a
\* launch has the content the target had before the first launch.
C2_BackupHoldsOriginal ==
    (bak0 = NoFile /\ pc = "exit" /\ exists(bak)) => bak.bytes = target0.bytes

\* C3: a launch on a valid target without a .bak, whose copy succeeds and
\* whose tool check passes, ends with exit code 0, <target>.bak equal to the
\* target as it was when the launch began, every pass having issued the
\* commands of the tools found in pipeline order, and the target being what
\* the last of them left.
C3_EndToEnd ==
    (pc = "exit" /\ bakAtStart = NoFile /\ ~BadTarget(targetAtStart)
        /\ parsePasses(argv).err = "" /\ CapsPresent \cap {"strip", "objcopy", "upx"} # {}
        /\ msg # "Failed to create backup")
      => /\ exitCode = 0
         /\ bak = targetAtStart
         /\ target = lastOut
         /\ PassesBegun >= 1
         /\ \A p \in 1..PassesBegun : PassCmds(p) = Commands(detectTools(pathEnv))
         /\ Len(cmds) = PassesBegun * Len(Commands(detectTools(pathEnv)))

\* strip is the only tool, one pass is asked for, the file got smaller
C3_Witness ==
    /\ pc = "exit" /\ exitCode = 0 /\ bakAtStart = NoFile /\ run = 1
    /\ CapsPresent = {"strip"} /\ Len(argv) = 1
    /\ Len(cmds) = 2 /\ Len(target.bytes) < Len(bak.bytes) /\ target # NoFile
    /\ bak = targetAtStart

\* C4: a launch whose target is missing, not a regular file, not executable
\* or not ELF ends with exit code 1 without calling backupOnce, creating or
\* changing <target>.bak, running a tool or changing the target; backupOnce
\* is only ever called on a target that passed all these checks.
C4_PreconditionFailuresNeverMutate ==
    /\ (pc = "exit" /\ BadTarget(targetAtStart))
         => (exitCode = 1 /\ backupCalls = 0 /\ bak = bakAtStart /\ cmds = << >>
             /\ target = targetAtStart)
    /\ backupCalls > 0 => ~BadTarget(targetAtStart)

\* a launch with a good pass count has ended on an executable file with a
\* wrong signature, all tools being there and no .bak
C4_Witness ==
    /\ pc = "exit" /\ exitCode = 1 /\ msg = "Target is not an ELF binary"
    /\ targetAtStart.kind = "reg" /\ targetAtStart.x /\ Len(targetAtStart.bytes) >= 4
    /\ CapsPresent = {"strip", "objcopy", "patchelf", "sstrip", "upx"}
    /\ bak = NoFile

\* C5: a launch on a valid target with none of the five capabilities in PATH
\* ends with exit code 1, the target unchanged and no .bak created.
C5_NoToolsNoMutation ==
    (pc = "exit" /\ ~BadTarget(targetAtStart) /\ CapsPresent = {})
      => (exitCode = 1 /\ target = targetAtStart /\ bak = bakAtStart
          /\ backupCalls = 0 /\ cmds = << >>)

\* a launch with good arguments on a valid target has ended for lack of tools,
\* PATH being set and naming a directory
C5_Witness ==
    /\ pc = "exit" /\ msg = "No optimization tools found in PATH"
    /\ ~BadTarget(targetAtStart) /\ CapsPresent = {}
    /\ pathEnv.set /\ Len(pathEnv.dirs) >= 1 /\ bak = NoFile

\* C6: with exactly one capability present and a valid target, the launch
\* makes the backup, issues that capability's commands and no others in each
\* pass, and exits 0; it ends for lack of tools only when no capability is
\* present.
C6_ToolAbsenceTolerance ==
    /\ (pc = "exit" /\ ~BadTarget(targetAtStart) /\ parsePasses(argv).err = ""
          /\ Cardinality(CapsPresent) = 1 /\ msg # "Failed to create backup")
         => /\ exitCode = 0
            /\ exists(bak)
            /\ cmds # << >>
            /\ \A k \in 1..Len(cmds) : cmds[k][2].cap \in CapsPresent
    /\ msg = "No optimization tools found in PATH" => CapsPresent = {}

\* C7: a pass is begun only when every earlier pass of the launch had a step
\* that exited 0 and made the file smaller; when the first pass has no such
\* step the launch runs that one pass, issues each command once and exits 0.
C7_EarlyStop ==
    /\ \A k \in 1..Len(cmds) : \A p \in 1..(cmds[k][1] - 1) : p \in reduced
    /\ pc = "steps" => \A p \in 1..(i - 1) : p \in reduced
    /\ (pc \in {"done", "exit"} /\ backupOk /\ 1 \notin reduced)
         => /\ \A k \in 1..Len(cmds) : cmds[k][1] = 1
            /\ Len(cmds) = Len(Commands(tools))
            /\ pc = "exit" => exitCode = 0

\* three passes were asked for, the first reduced nothing, the launch is over
C7_Witness ==
    /\ pc = "exit" /\ exitCode = 0 /\ passes = 3 /\ 1 \notin reduced
    /\ Len(cmds) >= 2 /\ target # targetAtStart

\* C8: within a pass the commands are issued in the fixed order: strip
\* --strip-unneeded, strip --strip-all, objcopy --strip-debug, objcopy
\* --remove-section, objcopy --compress-debug-sections, patchelf, sstrip, upx;
\* so the upx command of a pass never comes before its strip commands.
C8_StepOrdering ==
    /\ \A k \in 1..Len(cmds) : OrderIndex(cmds[k][2]) >= 1
    \* the commands of a pass follow each other in the log, so it is enough
    \* to compare each command with the next one
    /\ \A k \in 1..(Len(cmds) - 1) :
         /\ cmds[k][1] <= cmds[k + 1][1]
         /\ cmds[k][1] = cmds[k + 1][1]
              => OrderIndex(cmds[k][2]) < OrderIndex(cmds[k + 1][2])
    /\ \A j \in 1..Len(cmds) :
         cmds[j][2].cap = "upx"
           => \A k \in 1..Len(cmds) :
                (cmds[k][1] = cmds[j][1] /\ cmds[k][2].cap = "strip") => k < j

\* the second pass of a launch with all five tools has issued its eight commands
C8_Witness ==
    /\ Len(PassCmds(2)) = 8
    /\ PassCmds(2)[1].cap = "strip" /\ PassCmds(2)[8].cap = "upx"

\* C9: once upx has been run on the target, no strip, objcopy, patchelf or
\* sstrip command is run on it afterwards.
C9_PackerIsLast ==
    \A j, k \in 1..Len(cmds) :
        (j < k /\ cmds[j][2].cap = "upx") => cmds[k][2].cap = "upx"

\* C10: once backupOnce has returned true the launch never exits with a
\* nonzero code, and every pass it ends has issued all the commands of the
\* tools found, whatever the exit statuses of the tools were.
C10_StepFailuresAbsorbed ==
    /\ backupOk => exitCode # 1
    /\ (pc = "exit" /\ backupOk) => exitCode = 0
    /\ (pc \in {"loop", "done", "exit"} /\ backupOk)
         => /\ \A p \in 1..PassesBegun : PassCmds(p) = Commands(tools)
            /\ Len(cmds) = PassesBegun * Len(Commands(tools))

\* a launch in which tools exited nonzero has ended after two full passes of
\* five or more commands
C10_Witness ==
    /\ pc = "exit" /\ exitCode = 0 /\ sawFailure
    /\ PassesBegun = 2 /\ Len(Commands(tools)) >= 5
    /\ Len(cmds) = 2 * Len(Commands(tools))

\* second arguments "-0" and "-" followed by a negative integer
ClampedArgs == {<<"-", "0">>, <<"-", "-", "3">>}

\* C11: a launch whose second argument is "-0" or "--3" goes on from the
\* argument handling exactly as a launch without a second argument does: no
\* usage error, passes = 1; so it begins at most one pass, issues each command
\* of the tools found at most once and exits 0 once the backup is made.
C11_PassCountClamping ==
    (Len(argv) = 2 /\ argv[2] \in ClampedArgs /\ pc \notin {"idle", "args"})
      => /\ passes = 1
         /\ parsePasses(argv) = parsePasses(<<argv[1]>>)
         /\ msg \notin {"usage", "Invalid optimization count", "Second argument must be -<times>"}
         /\ PassesBegun <= 1
         /\ \A k \in 1..Len(cmds) : cmds[k][1] = 1
         /\ Len(cmds) <= Len(Commands(tools))
         /\ (pc = "exit" /\ backupOk) => (exitCode = 0 /\ cmds = Commands2Log(tools))

\* a launch with "--3" has ended after one pass whose steps made the file
\* smaller
C11_Witness ==
    /\ pc = "exit" /\ exitCode = 0 /\ Len(argv) = 2 /\ argv[2] = <<"-", "-", "3">>
    /\ 1 \in reduced /\ Len(cmds) >= 2

\* a decimal integer: digits, with or without a sign before them
IsInteger(s) ==
    LET u == IF s # << >> /\ s[1] \in {"-", "+"} THEN Tail(s) ELSE s
    IN u # << >> /\ \A k \in 1..Len(u) : IsDigit(u[k])

\* C12: a second argument that does not begin with '-' or whose text after
\* the '-' is not a number ends the launch with exit code 1 in the argument
\* handling: no check of the target, no backup, no tool.
C12_ArgumentValidation ==
    (Len(argv) = 2 /\ pc # "args"
        /\ (argv[2] = << >> \/ argv[2][1] # "-" \/ ~IsInteger(substr(argv[2], 1))))
      => (pc = "exit" /\ exitCode = 1 /\ backupCalls = 0 /\ cmds = << >>
          /\ bak = bakAtStart /\ target = targetAtStart)

\* C12 (the part that holds): the same for second arguments whose text after
\* the '-' does not begin, after blanks and a sign, with a digit.
C12_NoLeadingDigit ==
    (Len(argv) = 2 /\ pc # "args"
        /\ (argv[2] = << >> \/ argv[2][1] # "-"
            \/ LET t == skipSpace(substr(argv[2], 1))
                   u == IF t # << >> /\ t[1] \in {"-", "+"} THEN Tail(t) ELSE t
               IN u = << >> \/ ~IsDigit(u[1])))
      => (pc = "exit" /\ exitCode = 1 /\ backupCalls = 0 /\ cmds = << >>
          /\ bak = bakAtStart /\ target = targetAtStart)

\* C13: the result of optimizeOnce is true exactly when some step of that
\* pass exited with status 0 and left the target smaller than it found it:
\* anyShrank says so all through the pass, main begins pass i + 1 only after
\* such a pass i, and stops early only after a pass without such a step.
C13_PassResultIsStepOr ==
    /\ pc = "steps" => (anyShrank <=> i \in reduced)
    /\ (pc = "loop" /\ i > 1) => (i - 1) \in reduced
    /\ pc = "done" => i \notin reduced

\* a first pass is at its end with result true, after a tool failed, and the
\* file is longer than it was when the pass began
C13_Witness ==
    /\ pc = "steps" /\ step > Len(Commands(tools)) /\ i = 1
    /\ anyShrank /\ sawFailure
    /\ Len(target.bytes) > Len(targetAtStart.bytes)

\* the pass count asked for on the command line (1 when there is none)
PassCount == IF Len(argv) >= 2 THEN stoi(substr(argv[2], 1)).val ELSE 1
Max1(n) == IF n < 1 THEN 1 ELSE n

\* the number of passes a launch that made its backup has run when it ends
PassesBounded ==
    /\ PassesBegun <= Max1(PassCount)
    /\ (pc = "exit" /\ backupOk) =>
         /\ (\A p \in 1..Max1(PassCount) : p \in reduced) => PassesBegun = Max1(PassCount)
         /\ (\E p \in 1..Max1(PassCount) : p \notin reduced) =>
               /\ PassesBegun \notin reduced
               /\ \A p \in 1..(PassesBegun - 1) : p \in reduced
         /\ \A p \in 1..PassesBegun : Len(PassCmds(p)) = Len(Commands(tools))

\* C14: every launch ends; it never runs more than max(1, passCount) passes,
\* runs exactly that many when every pass made the file smaller, and
\* otherwise stops with the first pass that did not; each pass issues its
\* commands once.
C14_BoundedPassesAndTermination ==
    /\ []PassesBounded
    /\ (pc = "args") ~> (pc = "exit")

\* a launch asked for three passes has ended after its second pass, the first
\* to reduce nothing
C14_Witness ==
    /\ pc = "exit" /\ exitCode = 0 /\ PassCount = 3
    /\ PassesBegun = 2 /\ reduced = {1}

\* C15: when <target>.bak does not exist and the copy fails, the launch ends
\* with exit code 1 and the backup diagnostic, without having begun a pass or
\* run a tool, and the target is as it was. (After a call of backupOnce on a
\* target without .bak, a .bak that is not the target's copy tells that
\* the copy failed.)
C15_BackupFailureIsFatal ==
    /\ (backupCalls = 1 /\ ~exists(bakAtStart) /\ bak # targetAtStart)
         => /\ pc = "exit" /\ exitCode = 1 /\ msg = "Failed to create backup"
            /\ ~backupOk
            /\ cmds = << >> /\ i = 1 /\ reduced = {}
            /\ target = targetAtStart
    /\ msg = "Failed to create backup"
         => (pc = "exit" /\ exitCode = 1 /\ cmds = << >> /\ target = targetAtStart
             /\ ~exists(bakAtStart))

\* a launch asked for three passes with all tools has ended on a failed copy
\* that left nothing
C15_Witness ==
    /\ pc = "exit" /\ exitCode = 1 /\ msg = "Failed to create backup"
    /\ backupCalls = 1 /\ bak = NoFile /\ passes = 3
    /\ Len(Commands(tools)) = 8

\* the steps of the fixed order whose capability is in PATH
ExpectedSteps ==
    LET caps == CapsPresent
    IN SelectSeq(FixedOrder, LAMBDA s : s[1] \in caps)
\* the capabilities main's tools holds a program for
ToolCaps == {c \in {"strip", "objcopy", "patchelf", "sstrip", "upx"} : tools[c] # None}

\* C16: from the tool detection to the exit, tools is what detectTools made
\* of the PATH of the launch and holds exactly the capabilities that were in
\* PATH at startup; they are detected before backupOnce is called; every pass
\* issues, in the fixed order, the steps of exactly these capabilities,
\* whatever earlier steps and passes did.
C16_ToolSetFixed ==
    /\ (pc \in {"backup", "loop", "steps", "done"} \/ backupCalls >= 1)
         => (ToolCaps = CapsPresent /\ tools = detectTools(pathEnv))
    \* the k-th command of the launch is step ((k-1) mod n) + 1 of pass
    \* ((k-1) div n) + 1, n being the number of steps of the capabilities
    /\ LET exp == ExpectedSteps
           n == Len(exp)
       IN /\ \A k \in 1..Len(cmds) :
               /\ cmds[k][1] = ((k - 1) \div n) + 1
               /\ <<cmds[k][2].cap, cmds[k][2].flags>> = exp[((k - 1) % n) + 1]
          /\ pc = "steps" => Len(cmds) = (i - 1) * n + (step - 1)
          /\ pc \in {"loop", "done", "exit"} => Len(cmds) = PassesBegun * n

\* with strip and upx only, a second pass has issued the same three commands
\* as the first, after some tool failed
C16_Witness ==
    /\ CapsPresent = {"strip", "upx"} /\ sawFailure
    /\ Len(PassCmds(2)) = 3 /\ PassCmds(2) = PassCmds(1)

\* the first directory of PATH where name is an executable regular file, 0
\* if there is none
FirstDir(name) ==
    IF ~Available(name) THEN 0
    ELSE CHOOSE k \in 1..Len(pathEnv.dirs) :
            /\ name \in pathEnv.dirs[k].execs
            /\ \A j \in 1..(k - 1) : name \notin pathEnv.dirs[j].execs
\* the program found for a single name
Found(name) ==
    IF FirstDir(name) = 0 THEN None ELSE <<pathEnv.dirs[FirstDir(name)].name, name>>

\* C17: once the tools are detected, strip and objcopy are the LLVM name's
\* program whenever that name is an executable regular file in some directory
\* of PATH, whatever the directory of the GNU name, and the GNU name's program
\* only when the LLVM name is in no directory; for one name the program is
\* the one of the first directory that holds it as an executable regular
\* file; with PATH unset every capability is absent.
C17_ToolPreference ==
    pc # "tools" =>
      /\ tools.strip = IF Available("llvm-strip") THEN Found("llvm-strip") ELSE Found("strip")
      /\ tools.objcopy = IF Available("llvm-objcopy") THEN Found("llvm-objcopy")
                         ELSE Found("objcopy")
      /\ tools.upx = Found("upx")
      /\ tools.patchelf = Found("patchelf")
      /\ tools.sstrip = Found("sstrip")
      /\ ~pathEnv.set => tools = NoTools

\* strip is executable in the first directory, where llvm-strip is an entry
\* that cannot be run, and llvm-strip is executable in the second directory
\* only: the program of the second directory is taken
C17_Witness ==
    /\ pc # "tools"
    /\ Len(pathEnv.dirs) >= 2
    /\ "strip" \in pathEnv.dirs[1].execs
    /\ "llvm-strip" \in pathEnv.dirs[1].other
    /\ pathEnv.dirs[2].execs = {"llvm-strip", "objcopy", "upx"}
    /\ tools.strip = <<DirName(2), "llvm-strip">>
    /\ tools.objcopy = <<DirName(2), "objcopy">>

\* the "[exec]" lines written so far, as the commands they show
ExecLines ==
    LET l == SelectSeq(diag, LAMBDA d : d[1] = "[exec]")
    IN [k \in 1..Len(l) |-> l[k][2]]
\* the commands run so far
CommandsRun == [k \in 1..Len(cmds) |-> cmds[k][2]]
\* the size reports written so far
SizeReports == Len(SelectSeq(diag, LAMBDA d : d[1] = "Size"))
\* the passes whose optimizeOnce has returned
PassesEnded == IF pc = "steps" THEN i - 1 ELSE PassesBegun

\* C18: the command line of every tool invocation of a pass has been written
\* to the diagnostic stream by the time the command runs, so the "[exec]"
\* lines are the commands run, in order; and every pass that has ended has
\* written exactly one size report, after its last step.
C18_Diagnostics ==
    /\ ExecLines = CommandsRun
    /\ SizeReports = PassesEnded

\* C18, the part about the size report: one report per ended pass, none
\* while the steps of a pass are still running, and the report is the last
\* line before the next "Pass" line or the early-stop line
C18_SizeReportPerPass ==
    /\ SizeReports = PassesEnded
    /\ pc = "steps" => diag[Len(diag)][1] \in {"Pass", "[exec]"}
    /\ \A k \in 2..Len(diag) :
         diag[k][1] \in {"Pass", "No further changes; stopping early."}
           => diag[k - 1][1] = "Size"

\* the size of the file cannot be read: nothing is there, or a directory
Unreadable(f) == f = NoFile \/ f.kind # "reg"
\* this step is a call of tryStep whose tool exited with status 0, no tool of
\* the launch having failed before
StepExitedZero == cmds' # cmds /\ ~sawFailure'

\* C19: a size that cannot be read counts as 0. A step whose tool exits with
\* 0 and leaves the target missing or unreadable, the size before being
\* above 0, sets anyShrank; a pass that ends with anyShrank set hands the
\* loop the next pass index with the target as it is, and the pass that then
\* begins on a missing or unreadable target takes 0 as its size; the first
\* step of a pass that began on a missing or unreadable target leaves
\* anyShrank false.
C19_UnreadableSizeIsZero ==
    [][ /\ (StepExitedZero /\ ~Unreadable(target) /\ Len(target.bytes) > 0
             /\ Unreadable(target'))
           => (anyShrank' /\ sizeNow' = 0)
        /\ (pc = "steps" /\ pc' # "steps" /\ anyShrank)
           => (pc' = "loop" /\ i' = i + 1 /\ target' = target)
        /\ (pc = "loop" /\ pc' = "steps" /\ Unreadable(target))
           => (sizeNow' = 0 /\ ~anyShrank')
        /\ (cmds' # cmds /\ step = 1 /\ Unreadable(target))
           => ~anyShrank'
      ]_vars

\* upx alone: its run in pass 1 exited with 0 and removed the target, pass 1
\* reported a reduction, pass 2 began on the missing target and its first
\* step, exiting with 0 too, reported none
C19_Witness ==
    /\ pc = "steps" /\ i = 2
    /\ Len(cmds) = 2 /\ cmds[1][1] = 1 /\ cmds[2][1] = 2
    /\ target = NoFile /\ sizeNow = 0
    /\ ~sawFailure /\ 1 \in reduced /\ ~anyShrank

====
